---- MODULE Spec2Model ----
(***************************************************************************)
(* A model of the EmbedBuilder and ContentBuilder classes of               *)
(* rbx-discord-embeds (src/src/embed-builder.ts, src/src/content-builder.ts *)
(* and the utility module src/unnamed/part_000).                           *)
(*                                                                         *)
(* A string is a record [n, c]: the byte sequence c (bytes 0..255, as in a  *)
(* Luau string) repeated n times, so that "x".rep(4097) stays small; Bytes *)
(* gives the byte sequence.  An optional value is <<>> (absent, Luau nil)  *)
(* or <<v>> (present).  Luau                                               *)
(* tables that the code shares by reference are heap cells: `tables` holds *)
(* the embed documents (cell 1 is the EmbedBuilder's EmbedData, the other  *)
(* cells are the throwaway embeds of ContentBuilder.AddImage) and `subs`   *)
(* holds the author / footer sub-objects, which the setters replace by     *)
(* clones.  One EmbedBuilder and one ContentBuilder are modelled.          *)
(***************************************************************************)
EXTENDS Integers, Sequences, FiniteSets, TLC

VARIABLES
    tables,       \* heap of embed documents; tables[1] is EmbedBuilder.EmbedData
    subs,         \* heap of author / footer sub-objects
    held,         \* a reference to a sub-object the caller read earlier, or <<>>
    MessageData,  \* ContentBuilder's private EmbedData record
    Flags,        \* ContentBuilder.Flags.Value
    added,        \* history: the flags passed to AddFlag so far
    last          \* the call that produced this state and how it ended

vars == <<tables, subs, held, MessageData, Flags, added, last>>

None == <<>>
Some(v) == <<v>>

----------------------------------------------------------------------------
(* Bounds of the model.                                                    *)

MaxFields == 2
MaxEmbeds == 2

----------------------------------------------------------------------------
(* Program constants.                                                      *)

MaxTitle == 256
MaxDescription == 4096
MaxAuthorName == 256
MaxFooterText == 2048
MaxFieldName == 256
MaxFieldValue == 1024
MaxUsername == 80
MaxContent == 2000
MaxThreadName == 100
SUPPRESS_EMBEDS == 4
SUPPRESS_NOTIFICATIONS == 4096

----------------------------------------------------------------------------
(* src/unnamed/part_000: the utility module.                               *)

\* The number of bytes a UTF-8 sequence starting with lead byte b takes,
\* 0 when b cannot start a sequence (utf8.len's decoding).
Utf8SeqLen(b) ==
    IF b <= 127 THEN 1
    ELSE IF b >= 194 /\ b <= 223 THEN 2
    ELSE IF b >= 224 /\ b <= 239 THEN 3
    ELSE IF b >= 240 /\ b <= 244 THEN 4
    ELSE 0

IsContinuation(b) == b >= 128 /\ b <= 191

\* The string with bytes c, and its byte sequence.
Str(c) == [n |-> 1, c |-> c]
Bytes(s) == [i \in 1..(s.n * Len(s.c)) |-> s.c[((i - 1) % Len(s.c)) + 1]]

\* utf8.len of the bytes returned a length (not nil plus the invalid
\* position): every byte that is not a continuation starts a sequence that is
\* followed by exactly its continuation bytes.
Utf8ValidBytes(value) ==
    \A i \in 1..Len(value) :
        IF IsContinuation(value[i])
        THEN \E j \in {k \in (i - 3)..(i - 1) : k >= 1} :
                 /\ ~IsContinuation(value[j])
                 /\ i - j < Utf8SeqLen(value[j])
                 /\ \A k \in (j + 1)..i : IsContinuation(value[k])
        ELSE LET n == Utf8SeqLen(value[i]) IN
             /\ n > 0
             /\ i + n - 1 <= Len(value)
             /\ \A k \in (i + 1)..(i + n - 1) : IsContinuation(value[k])

\* GetUtf8Length's assert passes.  A repetition is valid exactly when its
\* unit is: a unit that is invalid starts with a continuation byte, ends
\* inside a sequence or is invalid in between, and so does its repetition.
Utf8Valid(value) == value.n = 0 \/ Utf8ValidBytes(value.c)

\* Faulty variant: the length in bytes instead of code points.
GetUtf8LengthBytes(value) == value.n * Len(value.c)

\* GetUtf8Length's result when its assert passes: the number of code points,
\* one for each byte that starts a sequence.
GetUtf8Length(value) ==
    value.n * Cardinality({i \in 1..Len(value.c) : Utf8SeqLen(value.c[i]) > 0})

\* A setter's length check: GetUtf8Length raises, or the length is over max.
LengthRaises(value, max) == ~Utf8Valid(value) \/ GetUtf8Length(value) > max

\* t.match("^https?://")
IsValidUrl(value) ==
    LET b == Bytes(value)
        n == IF Len(b) >= 5 /\ b[5] = 115 THEN 5 ELSE 4
    IN
    /\ Len(b) >= n + 3
    /\ SubSeq(b, 1, 4) = <<104, 116, 116, 112>>
    /\ SubSeq(b, n + 1, n + 3) = <<58, 47, 47>>

\* Faulty variant: the values are pushed in front.
ArrayAppendFront(array, values) == values \o array

\* Append(array, ...values): a clone of array with the values pushed.
\* (Sequences already defines Append, hence the name.)
ArrayAppend(array, values) == array \o values

----------------------------------------------------------------------------
(* The heaps.                                                              *)

\* An author / footer sub-object: AuthorData and FooterData together.
EmptySub == [name |-> None, url |-> None, icon_url |-> None, text |-> None]

\* EmbedBuilder.EmbedData = {} ; author and footer hold references into subs.
EmptyEmbed ==
    [author |-> None, color |-> None, description |-> None, fields |-> None,
     footer |-> None, image |-> None, thumbnail |-> None, timestamp |-> None,
     title |-> None, url |-> None]

\* ContentBuilder's EmbedData = { attachments: [] } ; embeds holds references
\* into tables.
EmptyMessage ==
    [username |-> None, avatar_url |-> None, content |-> None,
     thread_name |-> None, embeds |-> None, attachments |-> <<>>]

SubIds == 1..4

\* The sub-objects some reference reaches.
LiveSubs(tabs, h) ==
    UNION {{tabs[i].author[j] : j \in DOMAIN tabs[i].author}
           \cup {tabs[i].footer[j] : j \in DOMAIN tabs[i].footer} : i \in DOMAIN tabs}
    \cup {h[j] : j \in DOMAIN h}

\* The address of a newly created table: one that nothing refers to.
Fresh(live) == CHOOSE i \in SubIds : i \notin live /\ \A j \in SubIds : j < i => j \in live

\* Unreachable sub-objects are reclaimed.
Collect(heap, live) == [i \in SubIds |-> IF i \in live THEN heap[i] ELSE EmptySub]

\* this.EmbedData.author ?? {} (slot "author" or "footer")
SubOf(tabs, heap, slot) ==
    IF tabs[1][slot] = None THEN EmptySub ELSE heap[tabs[1][slot][1]]

\* Faulty variant: the sub-object is written in place when there is one.
PutSubKeyInPlace(tabs, heap, h, slot, key, v) ==
    IF tabs[1][slot] = None
    THEN LET id == Fresh(LiveSubs(tabs, h))
             tabs2 == [tabs EXCEPT ![1][slot] = Some(id)]
         IN <<tabs2, Collect([heap EXCEPT ![id] = [EmptySub EXCEPT ![key] = Some(v)]],
                             LiveSubs(tabs2, h))>>
    ELSE <<tabs, [heap EXCEPT ![tabs[1][slot][1]][key] = Some(v)]>>

\* const sub = table.clone(this.EmbedData[slot] ?? {}); sub[key] = v;
\* this.EmbedData[slot] = sub;   The result is the new <<tables, subs>>.
PutSubKey(tabs, heap, h, slot, key, v) ==
    LET id == Fresh(LiveSubs(tabs, h))
        clone == [SubOf(tabs, heap, slot) EXCEPT ![key] = Some(v)]
        tabs2 == [tabs EXCEPT ![1][slot] = Some(id)]
    IN <<tabs2, Collect([heap EXCEPT ![id] = clone], LiveSubs(tabs2, h))>>

EmbedData == tables[1]

\* The record of a call: its name, whether it returned (ok) or raised, its
\* string arguments, its optional boolean, its field arguments, its number
\* (a flag, a color), whether it warned and what it returned.
Call(op, ok, args) ==
    [op |-> op, ok |-> ok, args |-> args, inline |-> None, items |-> <<>>,
     flag |-> 0, warned |-> FALSE, result |-> None]

Init ==
    /\ tables = <<EmptyEmbed>>
    /\ subs = [i \in SubIds |-> EmptySub]
    /\ held = None
    /\ MessageData = EmptyMessage
    /\ Flags = 0
    /\ added = {}
    /\ last = Call("new", TRUE, <<>>)

----------------------------------------------------------------------------
(* EmbedBuilder.                                                           *)

\* tables after a setter of one key of EmbedData that raises or writes v.
Written(raises, key, v) ==
    IF raises THEN tables ELSE [tables EXCEPT ![1][key] = Some(v)]

\* <<tables, subs>> after a setter of one key of the author or the footer.
SubWritten(raises, slot, key, v) ==
    IF raises THEN <<tables, subs>> ELSE PutSubKey(tables, subs, held, slot, key, v)

\* Faulty variant: the title is written before its length is checked.
SetTitleUnchecked(title) ==
    /\ tables' = Written(FALSE, "title", title)
    /\ last' = Call("SetTitle", ~LengthRaises(title, MaxTitle), <<title>>)
    /\ UNCHANGED <<subs, held, MessageData, Flags, added>>

SetTitle(title) ==
    /\ tables' = Written(LengthRaises(title, MaxTitle), "title", title)
    /\ last' = Call("SetTitle", ~LengthRaises(title, MaxTitle), <<title>>)
    /\ UNCHANGED <<subs, held, MessageData, Flags, added>>

SetDescription(description) ==
    /\ tables' = Written(LengthRaises(description, MaxDescription),
                         "description", description)
    /\ last' = Call("SetDescription", ~LengthRaises(description, MaxDescription),
                    <<description>>)
    /\ UNCHANGED <<subs, held, MessageData, Flags, added>>

SetUrl(url) ==
    /\ tables' = Written(~IsValidUrl(url), "url", url)
    /\ last' = Call("SetUrl", IsValidUrl(url), <<url>>)
    /\ UNCHANGED <<subs, held, MessageData, Flags, added>>

\* return this.SetUrl(url)
SetBodyUrl(url) ==
    /\ tables' = Written(~IsValidUrl(url), "url", url)
    /\ last' = Call("SetBodyUrl", IsValidUrl(url), <<url>>)
    /\ UNCHANGED <<subs, held, MessageData, Flags, added>>

SetColor(color) ==
    /\ tables' = Written(FALSE, "color", color)
    /\ last' = [Call("SetColor", TRUE, <<>>) EXCEPT !.flag = color]
    /\ UNCHANGED <<subs, held, MessageData, Flags, added>>

SetAuthorName(authorName) ==
    LET put == SubWritten(LengthRaises(authorName, MaxAuthorName),
                          "author", "name", authorName) IN
    /\ tables' = put[1]
    /\ subs' = put[2]
    /\ last' = Call("SetAuthorName", ~LengthRaises(authorName, MaxAuthorName),
                    <<authorName>>)
    /\ UNCHANGED <<held, MessageData, Flags, added>>

SetAuthorUrl(authorUrl) ==
    LET put == SubWritten(~IsValidUrl(authorUrl), "author", "url", authorUrl) IN
    /\ tables' = put[1]
    /\ subs' = put[2]
    /\ last' = Call("SetAuthorUrl", IsValidUrl(authorUrl), <<authorUrl>>)
    /\ UNCHANGED <<held, MessageData, Flags, added>>

SetAuthorIconUrl(authorIconUrl) ==
    LET put == SubWritten(~IsValidUrl(authorIconUrl), "author", "icon_url",
                          authorIconUrl) IN
    /\ tables' = put[1]
    /\ subs' = put[2]
    /\ last' = Call("SetAuthorIconUrl", IsValidUrl(authorIconUrl), <<authorIconUrl>>)
    /\ UNCHANGED <<held, MessageData, Flags, added>>

SetFooterText(footerText) ==
    LET put == SubWritten(LengthRaises(footerText, MaxFooterText),
                          "footer", "text", footerText) IN
    /\ tables' = put[1]
    /\ subs' = put[2]
    /\ last' = Call("SetFooterText", ~LengthRaises(footerText, MaxFooterText),
                    <<footerText>>)
    /\ UNCHANGED <<held, MessageData, Flags, added>>

SetFooterIconUrl(footerIconUrl) ==
    LET put == SubWritten(~IsValidUrl(footerIconUrl), "footer", "icon_url",
                          footerIconUrl) IN
    /\ tables' = put[1]
    /\ subs' = put[2]
    /\ last' = Call("SetFooterIconUrl", IsValidUrl(footerIconUrl), <<footerIconUrl>>)
    /\ UNCHANGED <<held, MessageData, Flags, added>>

\* <<tables, subs, raised>> after a sub-setter of the composite calls: it
\* is not called when an earlier one raised or its argument is undefined
\* (None), raises without writing when its check fails, writes otherwise.
SubCalled(before, slot, key, argument, invalid) ==
    IF before[3] \/ argument = None THEN before
    ELSE IF invalid THEN <<before[1], before[2], TRUE>>
    ELSE PutSubKey(before[1], before[2], held, slot, key, argument[1]) \o <<FALSE>>

\* SetAuthor(authorName, authorUrl?, authorIconUrl?): SetAuthorName, then
\* SetAuthorUrl and SetAuthorIconUrl for the arguments that are defined; an
\* error of one of them ends the call.  args are the arguments given.
SetAuthor(authorName, authorUrl, authorIconUrl) ==
    LET s1 == SubCalled(<<tables, subs, FALSE>>, "author", "name", Some(authorName),
                        LengthRaises(authorName, MaxAuthorName))
        s2 == SubCalled(s1, "author", "url", authorUrl,
                        authorUrl # None /\ ~IsValidUrl(authorUrl[1]))
        s3 == SubCalled(s2, "author", "icon_url", authorIconUrl,
                        authorIconUrl # None /\ ~IsValidUrl(authorIconUrl[1]))
    IN
    /\ tables' = s3[1]
    /\ subs' = s3[2]
    /\ last' = Call("SetAuthor", ~s3[3], <<authorName>> \o authorUrl \o authorIconUrl)
    /\ UNCHANGED <<held, MessageData, Flags, added>>

\* SetFooter(footerText, footerIconUrl?): SetFooterText, then
\* SetFooterIconUrl when the argument is defined.
SetFooter(footerText, footerIconUrl) ==
    LET s1 == SubCalled(<<tables, subs, FALSE>>, "footer", "text", Some(footerText),
                        LengthRaises(footerText, MaxFooterText))
        s2 == SubCalled(s1, "footer", "icon_url", footerIconUrl,
                        footerIconUrl # None /\ ~IsValidUrl(footerIconUrl[1]))
    IN
    /\ tables' = s2[1]
    /\ subs' = s2[2]
    /\ last' = Call("SetFooter", ~s2[3], <<footerText>> \o footerIconUrl)
    /\ UNCHANGED <<held, MessageData, Flags, added>>

\* The caller reads the public EmbedData.author (or .footer) and keeps the
\* reference.
ReadSub(slot) ==
    /\ EmbedData[slot] # None
    /\ held' = EmbedData[slot]
    /\ subs' = Collect(subs, LiveSubs(tables, EmbedData[slot]))
    /\ last' = Call("ReadSub", TRUE, <<>>)
    /\ UNCHANGED <<tables, MessageData, Flags, added>>

\* t.match of a pattern made of single-character items between ^ and $: the
\* item -1 is %d (a digit), any other item is that byte.
MatchAnchored(value, pattern) ==
    LET b == Bytes(value) IN
    /\ Len(b) = Len(pattern)
    /\ \A i \in 1..Len(pattern) :
           IF pattern[i] = -1 THEN b[i] >= 48 /\ b[i] <= 57
           ELSE b[i] = pattern[i]

\* "^%d%d%d%d%-%d%d%-%d%dT%d%d:%d%d:%d%dZ$"
MatchIso8601(value) ==
    MatchAnchored(value, <<-1, -1, -1, -1, 45, -1, -1, 45, -1, -1, 84,
                           -1, -1, 58, -1, -1, 58, -1, -1, 90>>)

\* "^%d%d%d%d%-%d%d%-%d%dT%d%d:%d%d:%d%d%.%d%d%dZ$"
MatchIso8601DiscordTimestamp(value) ==
    MatchAnchored(value, <<-1, -1, -1, -1, 45, -1, -1, 45, -1, -1, 84,
                           -1, -1, 58, -1, -1, 58, -1, -1, 46, -1, -1, -1, 90>>)

\* Faulty variant: the trailing Z is kept.
ConvertKeepingZ(iso8601) == Str(Bytes(iso8601) \o <<46, 48, 48, 48, 90>>)

\* iso8601.sub(1, -2) + ".000Z"
ConvertToDiscordTimestamp(iso8601) ==
    Str(SubSeq(Bytes(iso8601), 1, Len(Bytes(iso8601)) - 1) \o <<46, 48, 48, 48, 90>>)

\* The value SetTimestamp asserts on and stores.
Normalized(timestamp) ==
    IF MatchIso8601(timestamp) THEN ConvertToDiscordTimestamp(timestamp)
    ELSE timestamp

SetTimestamp(timestamp) ==
    /\ tables' = Written(~MatchIso8601DiscordTimestamp(Normalized(timestamp)),
                         "timestamp", Normalized(timestamp))
    /\ last' = Call("SetTimestamp", MatchIso8601DiscordTimestamp(Normalized(timestamp)),
                    <<timestamp>>)
    /\ UNCHANGED <<subs, held, MessageData, Flags, added>>

\* this.EmbedData.fields ?? []
FieldsOf(data) == IF data.fields = None THEN <<>> ELSE data.fields[1]

\* $terrify<FieldData>(): name and value are strings, inline is an optional
\* boolean (an element of the model has no other kind of inline).
IsFieldData(value) == value.name # None /\ value.value # None

\* t.array(IsFieldData)
IsArrayOfFieldData(args) == \A i \in 1..Len(args) : IsFieldData(args[i])

\* AddField's and SetField's checks raise.
FieldRaises(name, value) ==
    LengthRaises(name, MaxFieldName) \/ LengthRaises(value, MaxFieldValue)

\* tables after the body that AddField and SetField share.
FieldPushed(name, value, inline) ==
    IF FieldRaises(name, value) THEN tables
    ELSE [tables EXCEPT ![1].fields =
             Some(ArrayAppend(FieldsOf(EmbedData),
                              <<[inline |-> inline, name |-> Some(name),
                                 value |-> Some(value)]>>))]

AddField(name, value, inline) ==
    /\ FieldRaises(name, value) \/ Len(FieldsOf(EmbedData)) < MaxFields
    /\ tables' = FieldPushed(name, value, inline)
    /\ last' = [Call("AddField", ~FieldRaises(name, value), <<name, value>>)
                   EXCEPT !.inline = inline]
    /\ UNCHANGED <<subs, held, MessageData, Flags, added>>

SetField(name, value, inline) ==
    /\ FieldRaises(name, value) \/ Len(FieldsOf(EmbedData)) < MaxFields
    /\ tables' = FieldPushed(name, value, inline)
    /\ last' = [Call("SetField", ~FieldRaises(name, value), <<name, value>>)
                   EXCEPT !.inline = inline]
    /\ UNCHANGED <<subs, held, MessageData, Flags, added>>

\* What AddFields(...args) does to a document's fields: whether it returns,
\* and the fields key afterwards.
AddFieldsResult(data, args) ==
    IF ~IsArrayOfFieldData(args) THEN [ok |-> FALSE, fields |-> data.fields]
    ELSE [ok |-> TRUE, fields |-> Some(ArrayAppend(FieldsOf(data), args))]

\* What SetFields(...args) does to a document's fields.
SetFieldsResult(data, args) ==
    [ok |-> TRUE, fields |-> Some(ArrayAppend(FieldsOf(data), args))]

AddFields(args) ==
    LET res == AddFieldsResult(EmbedData, args) IN
    /\ ~res.ok \/ Len(FieldsOf(EmbedData)) + Len(args) <= MaxFields
    /\ tables' = [tables EXCEPT ![1].fields = res.fields]
    /\ last' = [Call("AddFields", res.ok, <<>>) EXCEPT !.items = args]
    /\ UNCHANGED <<subs, held, MessageData, Flags, added>>

SetFields(args) ==
    LET res == SetFieldsResult(EmbedData, args) IN
    /\ ~res.ok \/ Len(FieldsOf(EmbedData)) + Len(args) <= MaxFields
    /\ tables' = [tables EXCEPT ![1].fields = res.fields]
    /\ last' = [Call("SetFields", res.ok, <<>>) EXCEPT !.items = args]
    /\ UNCHANGED <<subs, held, MessageData, Flags, added>>

SetImage(url) ==
    /\ tables' = Written(~IsValidUrl(url), "image", [url |-> url])
    /\ last' = Call("SetImage", IsValidUrl(url), <<url>>)
    /\ UNCHANGED <<subs, held, MessageData, Flags, added>>

\* Faulty variant: the URL is stored without the assert.
SetThumbnailUnchecked(url) ==
    /\ tables' = Written(FALSE, "thumbnail", [url |-> url])
    /\ last' = Call("SetThumbnail", TRUE, <<url>>)
    /\ UNCHANGED <<subs, held, MessageData, Flags, added>>

SetThumbnail(url) ==
    /\ tables' = Written(~IsValidUrl(url), "thumbnail", [url |-> url])
    /\ last' = Call("SetThumbnail", IsValidUrl(url), <<url>>)
    /\ UNCHANGED <<subs, held, MessageData, Flags, added>>

AddImage(url) ==
    /\ tables' = Written(~IsValidUrl(url), "image", [url |-> url])
    /\ last' = Call("AddImage", IsValidUrl(url), <<url>>)
    /\ UNCHANGED <<subs, held, MessageData, Flags, added>>

AddThumbnail(url) ==
    /\ tables' = Written(~IsValidUrl(url), "thumbnail", [url |-> url])
    /\ last' = Call("AddThumbnail", IsValidUrl(url), <<url>>)
    /\ UNCHANGED <<subs, held, MessageData, Flags, added>>

----------------------------------------------------------------------------
(* ContentBuilder.                                                         *)

\* MessageData after a setter of one key that raises or writes v.
MessageWritten(raises, key, v) ==
    IF raises THEN MessageData ELSE [MessageData EXCEPT ![key] = Some(v)]

SetUsername(username) ==
    /\ MessageData' = MessageWritten(LengthRaises(username, MaxUsername),
                                     "username", username)
    /\ last' = Call("SetUsername", ~LengthRaises(username, MaxUsername), <<username>>)
    /\ UNCHANGED <<tables, subs, held, Flags, added>>

SetAvatarUrl(avatarUrl) ==
    /\ MessageData' = MessageWritten(~IsValidUrl(avatarUrl), "avatar_url", avatarUrl)
    /\ last' = Call("SetAvatarUrl", IsValidUrl(avatarUrl), <<avatarUrl>>)
    /\ UNCHANGED <<tables, subs, held, Flags, added>>

SetContent(content) ==
    /\ MessageData' = MessageWritten(LengthRaises(content, MaxContent),
                                     "content", content)
    /\ last' = Call("SetContent", ~LengthRaises(content, MaxContent), <<content>>)
    /\ UNCHANGED <<tables, subs, held, Flags, added>>

SetThread(threadName) ==
    /\ MessageData' = MessageWritten(LengthRaises(threadName, MaxThreadName),
                                     "thread_name", threadName)
    /\ last' = Call("SetThread", ~LengthRaises(threadName, MaxThreadName),
                    <<threadName>>)
    /\ UNCHANGED <<tables, subs, held, Flags, added>>

RECURSIVE BitAnd(_, _)
\* bit32.band of two naturals
BitAnd(a, b) ==
    IF a = 0 \/ b = 0 THEN 0
    ELSE (a % 2) * (b % 2) + 2 * BitAnd(a \div 2, b \div 2)

RECURSIVE BitOr(_, _)
\* bit32.bor of two naturals
BitOr(a, b) ==
    IF a = 0 THEN b
    ELSE IF b = 0 THEN a
    ELSE (IF a % 2 = 1 \/ b % 2 = 1 THEN 1 ELSE 0) + 2 * BitOr(a \div 2, b \div 2)

\* Faulty variant: any flag that is set counts as this flag being set.
FlagsAfterAddAnySet(value, flag) == IF value # 0 THEN value ELSE BitOr(value, flag)

\* Flags.Value after AddFlag(flag): Intersects(flag) ? unchanged : On(flag)
FlagsAfterAdd(value, flag) ==
    IF BitAnd(value, flag) # 0 THEN value ELSE BitOr(value, flag)

AddFlag(flag) ==
    /\ Flags' = FlagsAfterAdd(Flags, flag)
    /\ added' = added \cup {flag}
    /\ last' = [Call("AddFlag", TRUE, <<>>)
                   EXCEPT !.flag = flag, !.warned = BitAnd(Flags, flag) # 0]
    /\ UNCHANGED <<tables, subs, held, MessageData>>

\* this.EmbedData.embeds ?? []
EmbedsOf(data) == IF data.embeds = None THEN <<>> ELSE data.embeds[1]

\* AddEmbed(embed): isBuilder says whether embed is the EmbedBuilder (anything
\* else fails EmbedBuilder.Is).  The element pushed is embed.EmbedData itself:
\* the reference 1 into tables.
AddEmbed(isBuilder) ==
    /\ ~isBuilder \/ Len(EmbedsOf(MessageData)) < MaxEmbeds
    /\ MessageData' = IF ~isBuilder THEN MessageData
                      ELSE [MessageData EXCEPT !.embeds =
                               Some(ArrayAppend(EmbedsOf(MessageData), <<1>>))]
    /\ last' = Call("AddEmbed", isBuilder, <<>>)
    /\ UNCHANGED <<tables, subs, held, Flags, added>>

\* ContentBuilder.AddImage(image, bodyUrl): the EmbedData of a new
\* EmbedBuilder().AddImage(image).SetBodyUrl(bodyUrl) is a new cell of tables.
ContentAddImage(image, bodyUrl) ==
    LET raises == ~IsValidUrl(image) \/ ~IsValidUrl(bodyUrl)
        data == [EmptyEmbed EXCEPT !.image = Some([url |-> image]),
                                   !.url = Some(bodyUrl)]
    IN
    /\ raises \/ Len(EmbedsOf(MessageData)) < MaxEmbeds
    /\ tables' = IF raises THEN tables ELSE tables \o <<data>>
    /\ MessageData' = IF raises THEN MessageData
                      ELSE [MessageData EXCEPT !.embeds =
                               Some(ArrayAppend(EmbedsOf(MessageData),
                                                <<Len(tables) + 1>>))]
    /\ last' = Call("ContentAddImage", ~raises, <<image, bodyUrl>>)
    /\ UNCHANGED <<subs, held, Flags, added>>

\* { ...this.EmbedData, flags: this.Flags.Value }
Serialized ==
    [username |-> MessageData.username, avatar_url |-> MessageData.avatar_url,
     content |-> MessageData.content, thread_name |-> MessageData.thread_name,
     embeds |-> MessageData.embeds, attachments |-> MessageData.attachments,
     flags |-> Flags]

Serialize ==
    /\ last' = [Call("Serialize", TRUE, <<>>) EXCEPT !.result = Some(Serialized)]
    /\ UNCHANGED <<tables, subs, held, MessageData, Flags, added>>

----------------------------------------------------------------------------
(* Serialization to JSON.  HttpService.JSONEncode writes the keys a table  *)
(* has (a key set to nil is not there), follows the references to nested   *)
(* tables and writes an array element by element; a JSON object is a       *)
(* function from its keys, a JSON array a sequence.                        *)

\* The keys of a table that are set.
Present(t) == {k \in DOMAIN t : t[k] # None}

\* JSONEncode of a table of strings and booleans: an author, a footer, a
\* field.
EncodeFlat(t) == [k \in Present(t) |-> t[k][1]]

\* JSONEncode of the embed document at cell i of tabs.
EncodeEmbed(tabs, heap, i) ==
    LET data == tabs[i] IN
    [k \in Present(data) |->
        CASE k \in {"author", "footer"} -> EncodeFlat(heap[data[k][1]])
          [] k = "fields" ->
                [j \in 1..Len(data.fields[1]) |-> EncodeFlat(data.fields[1][j])]
          [] OTHER -> data[k][1]]

\* JSONEncode({ ...this.EmbedData, flags: this.Flags.Value }); attachments
\* is the empty array the constructor sets and nothing writes.
EncodeMessage(tabs, heap, message, flags) ==
    [k \in Present(message) \cup {"attachments", "flags"} |->
        CASE k = "flags" -> flags
          [] k = "attachments" -> message.attachments
          [] k = "embeds" ->
                [j \in 1..Len(message.embeds[1]) |->
                    EncodeEmbed(tabs, heap, message.embeds[1][j])]
          [] OTHER -> message[k][1]]

\* EmbedBuilder.SerializeAsJson()
SerializeAsJson ==
    /\ last' = [Call("SerializeAsJson", TRUE, <<>>)
                   EXCEPT !.result = Some(EncodeEmbed(tables, subs, 1))]
    /\ UNCHANGED <<tables, subs, held, MessageData, Flags, added>>

\* EmbedBuilder.ToJson()
ToJson ==
    /\ last' = [Call("ToJson", TRUE, <<>>)
                   EXCEPT !.result = Some(EncodeEmbed(tables, subs, 1))]
    /\ UNCHANGED <<tables, subs, held, MessageData, Flags, added>>

\* Faulty variant: the flags are handed over and the flag set starts anew.
ContentSerializeAsJsonResetting ==
    /\ last' = [Call("ContentSerializeAsJson", TRUE, <<>>)
                   EXCEPT !.result =
                       Some(EncodeMessage(tables, subs, MessageData, Flags))]
    /\ Flags' = 0
    /\ UNCHANGED <<tables, subs, held, MessageData, added>>

\* ContentBuilder.SerializeAsJson()
ContentSerializeAsJson ==
    /\ last' = [Call("ContentSerializeAsJson", TRUE, <<>>)
                   EXCEPT !.result =
                       Some(EncodeMessage(tables, subs, MessageData, Flags))]
    /\ UNCHANGED <<tables, subs, held, MessageData, Flags, added>>

\* ContentBuilder.ToJson()
ContentToJson ==
    /\ last' = [Call("ContentToJson", TRUE, <<>>)
                   EXCEPT !.result =
                       Some(EncodeMessage(tables, subs, MessageData, Flags))]
    /\ UNCHANGED <<tables, subs, held, MessageData, Flags, added>>

----------------------------------------------------------------------------
(* The values the calls are made with.                                     *)

\* string.rep of the one-byte character b
Rep(b, n) == [n |-> n, c |-> <<b>>]

\* "a", 256 times U+00C9 (512 bytes), 257 times "x", a byte that is not UTF-8
TitleInputs ==
    {Str(<<97>>), [n |-> 256, c |-> <<195, 137>>], Rep(120, 257), Str(<<255>>)}
DescriptionInputs == {Rep(120, 4096), Rep(120, 4097)}
AuthorNameInputs == {Rep(120, 256), Rep(120, 257)}
FooterTextInputs == {Rep(120, 2048), Rep(120, 2049)}
FieldNameInputs == {Rep(120, 256), Rep(120, 257)}
FieldValueInputs == {Rep(120, 1024), Rep(120, 1025)}
UsernameInputs == {Rep(120, 80), Rep(120, 81)}
ContentInputs == {Rep(120, 2000), Rep(120, 2001)}
ThreadInputs == {Rep(120, 100), Rep(120, 101)}

----------------------------------------------------------------------------
(* The length-bounded string setters.                                      *)

NextLength ==
    \/ \E s \in TitleInputs : SetTitle(s)
    \/ \E s \in DescriptionInputs : SetDescription(s)
    \/ \E s \in AuthorNameInputs : SetAuthorName(s)
    \/ \E s \in FooterTextInputs : SetFooterText(s)
    \/ \E n \in FieldNameInputs, v \in FieldValueInputs : AddField(n, v, None)
    \/ \E n \in FieldNameInputs, v \in FieldValueInputs : SetField(n, v, Some(TRUE))
    \/ \E s \in UsernameInputs : SetUsername(s)
    \/ \E s \in ContentInputs : SetContent(s)
    \/ \E s \in ThreadInputs : SetThread(s)

SpecLength == Init /\ [][NextLength]_vars

----------------------------------------------------------------------------
(* The fields sequence under every operation that writes it, beside some   *)
(* that do not.                                                            *)

\* { name: "a", value: "v" }
FieldOk == [inline |-> None, name |-> Some(Str(<<97>>)), value |-> Some(Str(<<118>>))]
\* { name: "x".rep(257), value: "v", inline: false }
FieldLongName ==
    [inline |-> Some(FALSE), name |-> Some(Rep(120, 257)), value |-> Some(Str(<<118>>))]
\* { name: "n" }: no value
FieldNoValue == [inline |-> None, name |-> Some(Str(<<110>>)), value |-> None]

FieldElements == {FieldOk, FieldLongName, FieldNoValue}

\* The argument lists of AddFields and SetFields: up to two elements.
FieldsInputs ==
    {<<>>} \cup {<<e>> : e \in FieldElements}
           \cup {<<e, f>> : e \in FieldElements, f \in FieldElements}

ColorInputs == {0, 16777215}

NextFields ==
    \/ \E n \in FieldNameInputs, v \in FieldValueInputs : AddField(n, v, None)
    \/ \E n \in FieldNameInputs, v \in FieldValueInputs : SetField(n, v, Some(TRUE))
    \/ \E args \in FieldsInputs : AddFields(args)
    \/ \E args \in FieldsInputs : SetFields(args)
    \/ \E s \in TitleInputs : SetTitle(s)
    \/ \E c \in ColorInputs : SetColor(c)
    \/ \E s \in AuthorNameInputs : SetAuthorName(s)

SpecFields == Init /\ [][NextFields]_vars

----------------------------------------------------------------------------
(* An embed added to a message and then changed through its builder.       *)

\* "http://a" and "ftp://a"
HttpInputs ==
    {Str(<<104, 116, 116, 112, 58, 47, 47, 97>>), Str(<<102, 116, 112, 58, 47, 47, 97>>)}
\* "https://a" and "http:/a"
HttpsInputs ==
    {Str(<<104, 116, 116, 112, 115, 58, 47, 47, 97>>),
     Str(<<104, 116, 116, 112, 58, 47, 97>>)}
\* "http://a", "xhttps://a", "https:/" and ""
MoreUrlInputs ==
    {Str(<<104, 116, 116, 112, 58, 47, 47, 97>>),
     Str(<<120, 104, 116, 116, 112, 115, 58, 47, 47, 97>>),
     Str(<<104, 116, 116, 112, 115, 58, 47>>), Str(<<>>)}

NextAlias ==
    \/ \E b \in BOOLEAN : AddEmbed(b)
    \/ \E image \in HttpsInputs, bodyUrl \in HttpInputs : ContentAddImage(image, bodyUrl)
    \/ \E s \in TitleInputs : SetTitle(s)
    \/ \E c \in ColorInputs : SetColor(c)
    \/ \E s \in AuthorNameInputs : SetAuthorName(s)
    \/ \E n \in FieldNameInputs, v \in FieldValueInputs : AddField(n, v, None)
    \/ Serialize

SpecAlias == Init /\ [][NextAlias]_vars

----------------------------------------------------------------------------
(* The URL-typed values.                                                   *)

NextUrl ==
    \/ \E url \in HttpInputs : SetUrl(url)
    \/ \E url \in MoreUrlInputs : SetBodyUrl(url)
    \/ \E url \in HttpInputs : SetAuthorUrl(url)
    \/ \E url \in HttpsInputs : SetAuthorIconUrl(url)
    \/ \E url \in HttpInputs : SetFooterIconUrl(url)
    \/ \E url \in HttpsInputs : SetImage(url)
    \/ \E url \in HttpInputs : SetThumbnail(url)
    \/ \E url \in HttpsInputs : AddImage(url)
    \/ \E url \in HttpInputs : AddThumbnail(url)
    \/ \E url \in HttpsInputs : SetAvatarUrl(url)
    \/ \E image \in HttpsInputs, bodyUrl \in HttpInputs : ContentAddImage(image, bodyUrl)
    \/ \E b \in BOOLEAN : AddEmbed(b)

SpecUrl == Init /\ [][NextUrl]_vars

----------------------------------------------------------------------------
(* The author and footer sub-objects, and a caller that keeps a reference. *)

\* "a", "b" and 257 times "x"
NameInputs == {Str(<<97>>), Str(<<98>>), Rep(120, 257)}
\* "t" and 2049 times "x"
TextInputs == {Str(<<116>>), Rep(120, 2049)}

NextSub ==
    \/ \E s \in NameInputs : SetAuthorName(s)
    \/ \E url \in HttpInputs : SetAuthorUrl(url)
    \/ \E url \in HttpsInputs : SetAuthorIconUrl(url)
    \/ \E s \in TextInputs : SetFooterText(s)
    \/ \E url \in HttpInputs : SetFooterIconUrl(url)
    \/ \E slot \in {"author", "footer"} : ReadSub(slot)

SpecSub == Init /\ [][NextSub]_vars

----------------------------------------------------------------------------
(* The timestamp.                                                          *)

\* "2023-07-25T11:12:30Z" and "2023-07-25T11:12:30.500Z"
WholeSecond ==
    <<50, 48, 50, 51, 45, 48, 55, 45, 50, 53, 84, 49, 49, 58, 49, 50, 58, 51, 48, 90>>
Millisecond ==
    <<50, 48, 50, 51, 45, 48, 55, 45, 50, 53, 84, 49, 49, 58, 49, 50, 58, 51, 48,
      46, 53, 48, 48, 90>>

\* The two, each also with any one byte replaced by "9" or by "x", without
\* its last byte, and with "Z" or a line feed added; and "".
TimestampInputs ==
    LET bases == {WholeSecond, Millisecond} IN
    {Str(b) : b \in bases}
    \cup UNION {{Str([b EXCEPT ![p] = c]) : p \in 1..Len(b), c \in {57, 120}} :
                   b \in bases}
    \cup {Str(SubSeq(b, 1, Len(b) - 1)) : b \in bases}
    \cup {Str(b \o <<c>>) : b \in bases, c \in {90, 10}}
    \cup {Str(<<>>)}

NextTimestamp ==
    \/ \E t \in TimestampInputs : SetTimestamp(t)
    \/ \E c \in ColorInputs : SetColor(c)

SpecTimestamp == Init /\ [][NextTimestamp]_vars

----------------------------------------------------------------------------
(* ContentBuilder.                                                         *)

FlagInputs == {SUPPRESS_EMBEDS, SUPPRESS_NOTIFICATIONS}

NextContent ==
    \/ \E flag \in FlagInputs : AddFlag(flag)
    \/ Serialize
    \/ \E s \in UsernameInputs : SetUsername(s)
    \/ \E url \in HttpsInputs : SetAvatarUrl(url)
    \/ \E s \in ContentInputs : SetContent(s)
    \/ \E s \in ThreadInputs : SetThread(s)
    \/ \E b \in BOOLEAN : AddEmbed(b)
    \/ \E image \in HttpsInputs, bodyUrl \in HttpInputs : ContentAddImage(image, bodyUrl)

SpecContent == Init /\ [][NextContent]_vars

\* Both builders under a few mutators of each kind and every serialize call.
NextSerialize ==
    \/ \E s \in NameInputs : SetTitle(s)
    \/ \E url \in HttpInputs : SetAuthorUrl(url)
    \/ \E n \in FieldNameInputs, v \in FieldValueInputs, inline \in {None, Some(TRUE)} :
           AddField(n, v, inline)
    \/ \E s \in UsernameInputs : SetUsername(s)
    \/ \E flag \in FlagInputs : AddFlag(flag)
    \/ \E b \in BOOLEAN : AddEmbed(b)
    \/ SerializeAsJson
    \/ ToJson
    \/ Serialize
    \/ ContentSerializeAsJson
    \/ ContentToJson

SpecSerialize == Init /\ [][NextSerialize]_vars

\* An optional URL argument: undefined, or one of the URL inputs.
OptionalUrlInputs == {None} \cup {Some(url) : url \in HttpInputs}

\* EmbedBuilder under the composite setters.
NextComposite ==
    \/ \E s \in NameInputs, url \in OptionalUrlInputs, icon \in OptionalUrlInputs :
           SetAuthor(s, url, icon)
    \/ \E s \in TextInputs, icon \in OptionalUrlInputs : SetFooter(s, icon)
    \/ \E c \in ColorInputs : SetColor(c)

SpecComposite == Init /\ [][NextComposite]_vars

----------------------------------------------------------------------------
(* What the claims speak of.                                               *)

\* The code-point length of a string: its bytes that are not continuation
\* bytes.
CodePoints(s) == s.n * Cardinality({i \in 1..Len(s.c) : ~IsContinuation(s.c[i])})

\* The declared maximum lengths of the string arguments of each setter.
DeclaredBound ==
    [SetTitle |-> <<256>>, SetDescription |-> <<4096>>, SetAuthorName |-> <<256>>,
     SetFooterText |-> <<2048>>, AddField |-> <<256, 1024>>,
     SetField |-> <<256, 1024>>, SetUsername |-> <<80>>, SetContent |-> <<2000>>,
     SetThread |-> <<100>>]

BoundedSetters == DOMAIN DeclaredBound

\* The call was a length-bounded setter with an argument over its bound.
OverBound(call) ==
    /\ call.op \in BoundedSetters
    /\ \E i \in 1..Len(call.args) : CodePoints(call.args[i]) > DeclaredBound[call.op][i]

\* The call was a length-bounded setter with valid arguments within bounds.
WithinBound(call) ==
    /\ call.op \in BoundedSetters
    /\ \A i \in 1..Len(call.args) :
           /\ Utf8Valid(call.args[i])
           /\ CodePoints(call.args[i]) <= DeclaredBound[call.op][i]

\* The document field the last call is about holds the call's argument.
StoredArgument ==
    LET a == last.args
        fs == FieldsOf(EmbedData)
    IN CASE last.op = "SetTitle" -> EmbedData.title = Some(a[1])
         [] last.op = "SetDescription" -> EmbedData.description = Some(a[1])
         [] last.op = "SetAuthorName" ->
                EmbedData.author # None /\ subs[EmbedData.author[1]].name = Some(a[1])
         [] last.op = "SetFooterText" ->
                EmbedData.footer # None /\ subs[EmbedData.footer[1]].text = Some(a[1])
         [] last.op \in {"AddField", "SetField"} ->
                /\ fs # <<>>
                /\ fs[Len(fs)] = [inline |-> last.inline, name |-> Some(a[1]),
                                  value |-> Some(a[2])]
         [] last.op = "SetUsername" -> MessageData.username = Some(a[1])
         [] last.op = "SetContent" -> MessageData.content = Some(a[1])
         [] last.op = "SetThread" -> MessageData.thread_name = Some(a[1])
         [] OTHER -> FALSE

\* C5: a length-bounded string setter called with a string whose code-point
\* length exceeds the field's bound fails, and the documents (every field, the
\* fields sequence, the flag set) are what they were before the call.
C5_OverBoundRejected ==
    [][OverBound(last') =>
           ~last'.ok /\ UNCHANGED <<tables, subs, MessageData, Flags>>]_vars

\* A 4097-code-point description was refused while a description, a title
\* and a field were already in the document.
C5_Witness ==
    /\ last.op = "SetDescription" /\ ~last.ok
    /\ CodePoints(last.args[1]) = 4097
    /\ EmbedData.description # None /\ EmbedData.title # None
    /\ FieldsOf(EmbedData) # <<>>

EmbedWithinBounds(data) ==
    /\ data.title # None => CodePoints(data.title[1]) <= 256
    /\ data.description # None => CodePoints(data.description[1]) <= 4096
    /\ data.author # None =>
           LET a == subs[data.author[1]] IN a.name # None => CodePoints(a.name[1]) <= 256
    /\ data.footer # None =>
           LET f == subs[data.footer[1]] IN f.text # None => CodePoints(f.text[1]) <= 2048
    /\ \A i \in 1..Len(FieldsOf(data)) :
           LET f == FieldsOf(data)[i] IN
           /\ f.name # None => CodePoints(f.name[1]) <= 256
           /\ f.value # None => CodePoints(f.value[1]) <= 1024

\* C2: in every reachable state every length-bounded string present in a
\* document is within its bound (title 256, description 4096, author.name
\* 256, footer.text 2048, field name 256, field value 1024, username 80,
\* content 2000, thread_name 100).
C2_AllWithinBounds ==
    /\ \A i \in DOMAIN tables : EmbedWithinBounds(tables[i])
    /\ MessageData.username # None => CodePoints(MessageData.username[1]) <= 80
    /\ MessageData.content # None => CodePoints(MessageData.content[1]) <= 2000
    /\ MessageData.thread_name # None => CodePoints(MessageData.thread_name[1]) <= 100

\* C3: AddFields and SetFields are aliases: for every document and every
\* argument list both have the same outcome (both fail when an element is
\* not a field, both append otherwise) and the same resulting fields.
C3_AliasesAgree ==
    \A args \in FieldsInputs :
        AddFieldsResult(EmbedData, args) = SetFieldsResult(EmbedData, args)

\* s is a prefix of t.
IsPrefix(s, t) == Len(s) <= Len(t) /\ SubSeq(t, 1, Len(s)) = s

\* C9: the fields sequence is append-only with insertion order kept: over
\* every operation, successful or failing, the fields before it are a prefix
\* of the fields after it, and a successful AddField / SetField(name, value,
\* inline) extends them by exactly the element {name, value, inline}.
C9_AppendOnly ==
    [][/\ IsPrefix(FieldsOf(tables[1]), FieldsOf(tables'[1]))
       /\ ~last'.ok => FieldsOf(tables'[1]) = FieldsOf(tables[1])
       /\ (last'.op \in {"AddField", "SetField"} /\ last'.ok) =>
              FieldsOf(tables'[1]) =
                  FieldsOf(tables[1]) \o
                      <<[inline |-> last'.inline, name |-> Some(last'.args[1]),
                         value |-> Some(last'.args[2])]>>]_vars

\* SetField appended a second element, different from the first one.
C9_Witness ==
    /\ last.op = "SetField" /\ last.ok
    /\ Len(FieldsOf(EmbedData)) = 2
    /\ FieldsOf(EmbedData)[1] # FieldsOf(EmbedData)[2]
    /\ FieldsOf(EmbedData)[2].name = Some(last.args[1])

\* An embed document with its author and footer references followed.
Resolved(data, heap) ==
    [data EXCEPT !.author = IF data.author = None THEN None
                            ELSE Some(heap[data.author[1]]),
                 !.footer = IF data.footer = None THEN None
                            ELSE Some(heap[data.footer[1]])]

\* What the message's embeds sequence holds.
EmbedsView(tabs, heap, message) ==
    [i \in 1..Len(EmbedsOf(message)) |-> Resolved(tabs[EmbedsOf(message)[i]], heap)]

EmbedBuilderCalls ==
    {"SetTitle", "SetDescription", "SetUrl", "SetBodyUrl", "SetColor",
     "SetAuthorName", "SetAuthorUrl", "SetAuthorIconUrl", "SetFooterText",
     "SetFooterIconUrl", "SetTimestamp", "AddField", "SetField", "AddFields",
     "SetFields", "SetImage", "SetThumbnail", "AddImage", "AddThumbnail"}

\* C1: AddEmbed(e) appends a snapshot of e's document: no mutator call made
\* on e afterwards changes what the ContentBuilder's embeds sequence holds
\* (nor, therefore, what it serializes to).
C1_SnapshotKept ==
    [][last'.op \in EmbedBuilderCalls =>
           EmbedsView(tables', subs', MessageData') =
               EmbedsView(tables, subs, MessageData)]_vars

\* s starts with the bytes p.
StartsWith(s, p) == Len(s) >= Len(p) /\ SubSeq(s, 1, Len(p)) = p

\* The URL predicate: the string starts with http:// or https://.
HasScheme(s) ==
    \/ StartsWith(Bytes(s), <<104, 116, 116, 112, 58, 47, 47>>)
    \/ StartsWith(Bytes(s), <<104, 116, 116, 112, 115, 58, 47, 47>>)

UrlSetters ==
    {"SetUrl", "SetBodyUrl", "SetAuthorUrl", "SetAuthorIconUrl", "SetFooterIconUrl",
     "SetImage", "SetThumbnail", "AddImage", "AddThumbnail", "SetAvatarUrl",
     "ContentAddImage"}

\* C7: in every reachable state every URL-typed value of a document starts
\* with http:// or https:// (embed url, author.url, author.icon_url,
\* footer.icon_url, image.url, thumbnail.url, avatar_url, and the image.url
\* and url of the embeds of ContentBuilder.AddImage), and a URL setter called
\* with another value has failed.
C7_UrlsValid ==
    /\ \A i \in DOMAIN tables :
           /\ tables[i].url # None => HasScheme(tables[i].url[1])
           /\ tables[i].image # None => HasScheme(tables[i].image[1].url)
           /\ tables[i].thumbnail # None => HasScheme(tables[i].thumbnail[1].url)
    /\ \A i \in SubIds :
           /\ subs[i].url # None => HasScheme(subs[i].url[1])
           /\ subs[i].icon_url # None => HasScheme(subs[i].icon_url[1])
    /\ MessageData.avatar_url # None => HasScheme(MessageData.avatar_url[1])
    /\ (last.op \in UrlSetters /\ \E i \in 1..Len(last.args) : ~HasScheme(last.args[i]))
           => ~last.ok

\* SetThumbnail("ftp://a") failed on an embed that has a thumbnail and an
\* author URL, with an embed of ContentBuilder.AddImage in the message.
C7_Witness ==
    /\ last.op = "SetThumbnail" /\ ~last.ok /\ ~HasScheme(last.args[1])
    /\ EmbedData.thumbnail # None
    /\ EmbedData.author # None /\ subs[EmbedData.author[1]].url # None
    /\ Len(tables) > 1 /\ tables[2].image # None /\ tables[2].url # None
    /\ MessageData.avatar_url # None

SubSetters ==
    [SetAuthorName |-> <<"author", "name">>, SetAuthorUrl |-> <<"author", "url">>,
     SetAuthorIconUrl |-> <<"author", "icon_url">>,
     SetFooterText |-> <<"footer", "text">>,
     SetFooterIconUrl |-> <<"footer", "icon_url">>]

\* C4: copy-on-write of the author and footer sub-objects: over any setter
\* call an author or footer object read from the document earlier keeps
\* exactly its contents, and after a successful setter the builder's current
\* author (footer) is the earlier one with only the newly set key replaced.
C4_CopyOnWrite ==
    [][/\ (held # None /\ held' = held) => subs'[held[1]] = subs[held[1]]
       /\ (last'.op \in DOMAIN SubSetters /\ last'.ok) =>
              LET slot == SubSetters[last'.op][1]
                  key == SubSetters[last'.op][2]
              IN /\ tables'[1][slot] # None
                 /\ subs'[tables'[1][slot][1]] =
                        [SubOf(tables, subs, slot) EXCEPT ![key] = Some(last'.args[1])]]_vars

\* The author read after SetAuthorUrl still has a url and no name, while
\* the current author, after SetAuthorName, has both.
C4_Witness ==
    /\ last.op = "SetAuthorName" /\ last.ok
    /\ held # None /\ EmbedData.author # None /\ held # EmbedData.author
    /\ subs[held[1]].url # None /\ subs[held[1]].name = None
    /\ subs[EmbedData.author[1]].url = subs[held[1]].url
    /\ subs[EmbedData.author[1]].name = Some(last.args[1])

IsDigit(b) == b >= 48 /\ b <= 57

\* YYYY-MM-DDTHH:MM:SS followed by the bytes in tail (digits where tail has
\* a 0, the byte itself elsewhere).
HasDateTimeShape(s, tail) ==
    LET b == Bytes(s) IN
    /\ Len(b) = 19 + Len(tail)
    /\ \A i \in {1, 2, 3, 4, 6, 7, 9, 10, 12, 13, 15, 16, 18, 19} : IsDigit(b[i])
    /\ b[5] = 45 /\ b[8] = 45 /\ b[11] = 84 /\ b[14] = 58 /\ b[17] = 58
    /\ \A i \in 1..Len(tail) :
           IF tail[i] = 0 THEN IsDigit(b[19 + i]) ELSE b[19 + i] = tail[i]

\* YYYY-MM-DDTHH:MM:SSZ
WholeSecondForm(s) == HasDateTimeShape(s, <<90>>)
\* YYYY-MM-DDTHH:MM:SS.sssZ
MillisecondForm(s) == HasDateTimeShape(s, <<46, 0, 0, 0, 90>>)

\* The input with its trailing Z dropped and ".000Z" appended.
WithMilliseconds(s) ==
    Str([i \in 1..(Len(Bytes(s)) + 4) |->
            IF i < Len(Bytes(s)) THEN Bytes(s)[i]
            ELSE <<46, 48, 48, 48, 90>>[i - Len(Bytes(s)) + 1]])

\* C6: the stored timestamp is absent or in the millisecond form; SetTimestamp
\* stores a whole-second input with its trailing Z dropped and ".000Z"
\* appended, stores a millisecond input unchanged, and fails on any other
\* input, leaving the stored timestamp as it was.
C6_TimestampNormalized ==
    /\ [](EmbedData.timestamp = None \/ MillisecondForm(EmbedData.timestamp[1]))
    /\ [][last'.op = "SetTimestamp" =>
              LET t == last'.args[1] IN
              IF WholeSecondForm(t)
              THEN last'.ok /\ tables'[1].timestamp = Some(WithMilliseconds(t))
              ELSE IF MillisecondForm(t)
              THEN last'.ok /\ tables'[1].timestamp = Some(t)
              ELSE ~last'.ok /\ tables'[1].timestamp = tables[1].timestamp]_vars

\* SetTimestamp("2023-07-25T11:12:30Z") stored "2023-07-25T11:12:30.000Z".
C6_Witness ==
    /\ last.op = "SetTimestamp" /\ last.ok
    /\ last.args[1] = Str(WholeSecond)
    /\ EmbedData.timestamp =
           Some(Str(<<50, 48, 50, 51, 45, 48, 55, 45, 50, 53, 84, 49, 49, 58, 49, 50,
                      58, 51, 48, 46, 48, 48, 48, 90>>))

RECURSIVE OrOfAll(_)
\* The bitwise OR of a set of flags.
OrOfAll(S) ==
    IF S = {} THEN 0
    ELSE LET f == CHOOSE x \in S : TRUE IN BitOr(f, OrOfAll(S \ {f}))

\* C8: AddFlag is idempotent and never raises: the flag value, and the flags
\* integer Serialize emits, is the bitwise OR of the distinct flags added so
\* far, and AddFlag(F) with F already added leaves the value unchanged and
\* only warns.
C8_FlagsIdempotent ==
    /\ [](/\ Flags = OrOfAll(added)
          /\ last.op = "AddFlag" => last.ok
          /\ last.op = "Serialize" => last.result[1].flags = OrOfAll(added))
    /\ [][(last'.op = "AddFlag" /\ last'.flag \in added) =>
              Flags' = Flags /\ last'.warned]_vars

\* AddFlag of a flag that was set warned, with both flags set.
C8_Witness ==
    /\ last.op = "AddFlag" /\ last.warned /\ last.ok
    /\ added = {4, 4096} /\ Flags = 4100

----------------------------------------------------------------------------
(* Serialization.                                                          *)

SerializeCalls ==
    {"Serialize", "SerializeAsJson", "ToJson", "ContentSerializeAsJson",
     "ContentToJson"}

\* What a serialize call returns: the message as a mapping, or the JSON
\* string of the embed or of the message.
ResultKind ==
    [Serialize |-> "mapping", SerializeAsJson |-> "embed", ToJson |-> "embed",
     ContentSerializeAsJson |-> "message", ContentToJson |-> "message"]

\* A JSON object says of the keys what the table t holds: a key that is set
\* with its value, a key that is not set not at all.
Says(json, t, keys) ==
    \A k \in keys : IF t[k] = None THEN k \notin DOMAIN json
                    ELSE k \in DOMAIN json /\ json[k] = t[k][1]

SaysAll(json, t) == DOMAIN json \subseteq DOMAIN t /\ Says(json, t, DOMAIN t)

\* A JSON object says what the embed document doc (with its author and
\* footer in place of their references) holds.
SaysEmbed(json, doc) ==
    /\ DOMAIN json \subseteq DOMAIN doc
    /\ Says(json, doc, DOMAIN doc \ {"author", "footer", "fields"})
    /\ \A k \in {"author", "footer"} :
          IF doc[k] = None THEN k \notin DOMAIN json
          ELSE k \in DOMAIN json /\ SaysAll(json[k], doc[k][1])
    /\ IF doc.fields = None THEN "fields" \notin DOMAIN json
       ELSE /\ "fields" \in DOMAIN json
            /\ Len(json.fields) = Len(doc.fields[1])
            /\ \A j \in 1..Len(doc.fields[1]) :
                  SaysAll(json.fields[j], doc.fields[1][j])

\* A JSON object says what the message and the flag set hold.
SaysMessage(json) ==
    LET view == EmbedsView(tables, subs, MessageData) IN
    /\ DOMAIN json \subseteq DOMAIN MessageData \cup {"flags"}
    /\ json.flags = Flags
    /\ json.attachments = <<>>
    /\ Says(json, MessageData, {"username", "avatar_url", "content", "thread_name"})
    /\ IF MessageData.embeds = None THEN "embeds" \notin DOMAIN json
       ELSE /\ "embeds" \in DOMAIN json
            /\ Len(json.embeds) = Len(view)
            /\ \A j \in 1..Len(view) : SaysEmbed(json.embeds[j], view[j])

\* The result of the call is what the builder holds now.
ReflectsNow(call) ==
    CASE ResultKind[call.op] = "embed" ->
             SaysEmbed(call.result[1], Resolved(tables[1], subs))
      [] ResultKind[call.op] = "message" -> SaysMessage(call.result[1])
      [] OTHER -> /\ call.result[1].flags = Flags
                  /\ \A k \in DOMAIN MessageData :
                        call.result[1][k] = MessageData[k]

\* C11: a serialize call (Serialize, SerializeAsJson, ToJson of either
\* builder) succeeds, leaves the documents and the flag set as they were and
\* returns what the builder holds at that moment; a serialize call that
\* directly follows one of the same kind returns the same result.
C11_SerializeReadOnly ==
    [][last'.op \in SerializeCalls =>
          /\ last'.ok
          /\ UNCHANGED <<tables, subs, MessageData, Flags>>
          /\ ReflectsNow(last')
          /\ (last.op \in SerializeCalls
                  /\ ResultKind[last.op] = ResultKind[last'.op]
                  => last'.result = last.result)]_vars

\* ToJson of a message with both flags, a username and an embed that has a
\* title, an author and a field.
C11_Witness ==
    /\ last.op = "ContentToJson"
    /\ last.result[1].flags = 4100
    /\ "username" \in DOMAIN last.result[1]
    /\ "embeds" \in DOMAIN last.result[1]
    /\ {"title", "author", "fields"} \subseteq DOMAIN last.result[1].embeds[1]
    /\ "inline" \notin DOMAIN last.result[1].embeds[1].fields[1]

----------------------------------------------------------------------------
(* The composite setters.                                                  *)

CompositeSetters == {"SetAuthor", "SetFooter"}

\* C12: a SetAuthor or SetFooter call that fails (any one of its arguments
\* is invalid) leaves the embed document, its author and footer sub-objects
\* included, as it was before the call.
C12_AllOrNothing ==
    [][last'.op \in CompositeSetters /\ ~last'.ok =>
           Resolved(tables'[1], subs') = Resolved(tables[1], subs)]_vars

====
